---------------------------- MODULE Spec2Model ----------------------------
(***************************************************************************)
(* Model of app/security/policies.py (AdaptiveSecurityManager: boot-time   *)
(* key provisioning, per-location authorization, Fernet encryption) and of *)
(* app/orchestrator/mover.py (move_object).                                *)
(*                                                                         *)
(* A Python str is a sequence of one-character strings, so that strip(),   *)
(* lower(), split(","), sorted() and base64 decoding are computed on the   *)
(* characters.  Python's None is the value None.                           *)
(***************************************************************************)
EXTENDS Integers, Sequences, FiniteSets, TLC

None == [some |-> FALSE]

(***************************************************************************)
(* Characters and the str methods the code calls.                          *)
(***************************************************************************)

\* The printable ASCII characters in code-point order (32 .. 126); the three
\* that a TLA+ string cannot hold literally are spelled by name.
Ascii ==
  <<" ", "!", "DQUOTE", "#", "$", "%", "&", "'", "(", ")", "*", "+", ",", "-",
    ".", "/", "0", "1", "2", "3", "4", "5", "6", "7", "8", "9", ":", ";",
    "<", "=", ">", "?", "@", "A", "B", "C", "D", "E", "F", "G", "H", "I",
    "J", "K", "L", "M", "N", "O", "P", "Q", "R", "S", "T", "U", "V", "W",
    "X", "Y", "Z", "[", "BACKSLASH", "]", "^", "_", "BACKTICK", "a", "b", "c", "d", "e",
    "f", "g", "h", "i", "j", "k", "l", "m", "n", "o", "p", "q", "r", "s",
    "t", "u", "v", "w", "x", "y", "z", "{", "|", "}", "~">>

IndexOf(seq, c) == CHOOSE i \in 1..Len(seq) : seq[i] = c

OrdTable == [c \in {Ascii[i] : i \in 1..Len(Ascii)} |-> IndexOf(Ascii, c) + 31]

\* ord(c) of a printable ASCII character.
Ord(c) == OrdTable[c]

\* str.isspace() on the characters the inputs use.
IsSpace(c) == c = " "

\* str.lower() of one character: 'A'..'Z' map to 'a'..'z'.
LowerChar(c) ==
  IF Ord(c) >= 65 /\ Ord(c) <= 90 THEN Ascii[Ord(c) + 32 - 31] ELSE c

\* str.lower()
Lower(s) == [i \in 1..Len(s) |-> LowerChar(s[i])]

RECURSIVE LStrip(_)
LStrip(s) ==
  IF s # <<>> /\ IsSpace(Head(s)) THEN LStrip(Tail(s)) ELSE s

RECURSIVE RStrip(_)
RStrip(s) ==
  IF s # <<>> /\ IsSpace(s[Len(s)]) THEN RStrip(SubSeq(s, 1, Len(s) - 1)) ELSE s

\* str.strip()
Strip(s) == RStrip(LStrip(s))

\* str.split(sep): the list of the fields between the separators; the empty
\* string splits to the one empty field.
RECURSIVE SplitFrom(_, _, _)
SplitFrom(s, sep, cur) ==
  IF s = <<>> THEN <<cur>>
  ELSE IF Head(s) = sep THEN <<cur>> \o SplitFrom(Tail(s), sep, <<>>)
  ELSE SplitFrom(Tail(s), sep, Append(cur, Head(s)))

Split(s, sep) == SplitFrom(s, sep, <<>>)

\* s < t for two str: lexicographic by code point, a proper prefix first.
RECURSIVE StrLess(_, _)
StrLess(s, t) ==
  IF t = <<>> THEN FALSE
  ELSE IF s = <<>> THEN TRUE
  ELSE IF Head(s) = Head(t) THEN StrLess(Tail(s), Tail(t))
  ELSE Ord(Head(s)) < Ord(Head(t))

\* sorted(S) of a set of str: the ascending list of its members.
RECURSIVE Sorted(_)
Sorted(S) ==
  IF S = {} THEN <<>>
  ELSE LET m == CHOOSE x \in S : \A y \in S \ {x} : StrLess(x, y)
       IN  <<m>> \o Sorted(S \ {m})

Range(seq) == {seq[i] : i \in 1..Len(seq)}


(***************************************************************************)
(* Optional[T]: None, or Some(v).                                          *)
(***************************************************************************)
Some(v) == [some |-> TRUE, v |-> v]

IsNone(x) == ~x.some

(***************************************************************************)
(* base64.urlsafe_b64decode, as _coerce_fernet_key and Fernet() call it:   *)
(* '-' and '_' stand for '+' and '/', characters outside the alphabet are  *)
(* discarded, and decoding stops at the padding that completes a quad.     *)
(***************************************************************************)
Base64Alphabet ==
  <<"A", "B", "C", "D", "E", "F", "G", "H", "I", "J", "K", "L", "M", "N",
    "O", "P", "Q", "R", "S", "T", "U", "V", "W", "X", "Y", "Z", "a", "b",
    "c", "d", "e", "f", "g", "h", "i", "j", "k", "l", "m", "n", "o", "p",
    "q", "r", "s", "t", "u", "v", "w", "x", "y", "z", "0", "1", "2", "3",
    "4", "5", "6", "7", "8", "9", "+", "/">>

UrlsafeTranslate(c) == IF c = "-" THEN "+" ELSE IF c = "_" THEN "/" ELSE c

Base64Table ==
  [c \in {Base64Alphabet[i] : i \in 1..Len(Base64Alphabet)} |->
     IndexOf(Base64Alphabet, c) - 1]

InBase64Alphabet(c) == c \in DOMAIN Base64Table

Base64Value(c) == Base64Table[c]

\* binascii.a2b_base64 (not strict) from character i on: quad_pos is the
\* position in the current group of four, leftchar the bits not yet output,
\* pads the padding characters seen since the last data character.
RECURSIVE A2bBase64(_, _, _, _, _, _)
A2bBase64(s, i, quad_pos, leftchar, pads, out) ==
  IF i > Len(s)
  THEN IF quad_pos # 0 THEN [ok |-> FALSE, bytes |-> <<>>]
       ELSE [ok |-> TRUE, bytes |-> out]
  ELSE LET c == UrlsafeTranslate(s[i]) IN
       IF c = "="
       THEN IF quad_pos >= 2 /\ quad_pos + pads + 1 >= 4
            THEN [ok |-> TRUE, bytes |-> out]
            ELSE A2bBase64(s, i + 1, quad_pos, leftchar,
                           IF quad_pos >= 2 THEN pads + 1 ELSE pads, out)
       ELSE IF ~InBase64Alphabet(c)
       THEN A2bBase64(s, i + 1, quad_pos, leftchar, pads, out)
       ELSE LET v == Base64Value(c) IN
            CASE quad_pos = 0 -> A2bBase64(s, i + 1, 1, v, 0, out)
              [] quad_pos = 1 ->
                   A2bBase64(s, i + 1, 2, v % 16, 0,
                             Append(out, leftchar * 4 + v \div 16))
              [] quad_pos = 2 ->
                   A2bBase64(s, i + 1, 3, v % 4, 0,
                             Append(out, leftchar * 16 + v \div 4))
              [] OTHER ->
                   A2bBase64(s, i + 1, 0, 0, 0, Append(out, leftchar * 64 + v))

urlsafe_b64decode(s) == A2bBase64(s, 1, 0, 0, 0, <<>>)

(***************************************************************************)
(* policies.py: module-level helpers.                                      *)
(***************************************************************************)

\* Fernet keys are 32 bytes before base64 encoding.
FERNET_KEY_BYTES == 32

SYSTEM == <<"s", "y", "s", "t", "e", "m">>

Ok(v) == [ok |-> TRUE, value |-> v]

\* A raised exception: its class and message, the location the message names
\* (None when it names none), and the role list it names (AuthorizationError
\* only).
Raise(kind, loc, roles) ==
  [ok |-> FALSE, kind |-> kind, location |-> loc, roles |-> roles]

\* Mutant of _coerce_fernet_key: the check of the decoded length is missing.
_coerce_fernet_key_any_length(raw_key, location) ==
  IF raw_key = <<>>
  THEN Raise("ValueError:missing encryption key", Some(location), <<>>)
  ELSE LET stripped == Strip(raw_key)
           decoded == urlsafe_b64decode(stripped)
       IN  IF ~decoded.ok
           THEN Raise("ValueError:invalid base64 key", Some(location), <<>>)
           ELSE Ok(stripped)

\* _coerce_fernet_key: the stripped key text, or the ValueError raised.
\* The location is named as the definition spells it.
_coerce_fernet_key(raw_key, location) ==
  IF raw_key = <<>>
  THEN Raise("ValueError:missing encryption key", Some(location), <<>>)
  ELSE LET stripped == Strip(raw_key)
           decoded == urlsafe_b64decode(stripped)
       IN  IF ~decoded.ok
           THEN Raise("ValueError:invalid base64 key", Some(location), <<>>)
           ELSE IF Len(decoded.bytes) # FERNET_KEY_BYTES
           THEN Raise("ValueError:incorrect key length", Some(location), <<>>)
           ELSE Ok(stripped)

\* _normalize_roles: principal_roles is None or a list whose items are None
\* or a str.
NormalizeItems(items) ==
  {Lower(Strip(items[i].v)) :
     i \in {j \in 1..Len(items) : items[j].some /\ Lower(Strip(items[j].v)) # <<>>}}

\* Mutant of _normalize_roles: "return roles", without the default.
_normalize_roles_no_default(principal_roles) ==
  IF IsNone(principal_roles) THEN {SYSTEM}
  ELSE NormalizeItems(principal_roles.v)

_normalize_roles(principal_roles) ==
  IF IsNone(principal_roles) THEN {SYSTEM}
  ELSE LET roles == NormalizeItems(principal_roles.v)
       IN  IF roles = {} THEN {SYSTEM} ELSE roles

\* Mutant of _normalize_location: lower() without strip().
_normalize_location_no_strip(location) ==
  IF IsNone(location) THEN Raise("ValueError:location cannot be None", location, <<>>)
  ELSE Ok(Lower(location.v))

\* _normalize_location: location is None or a str.
_normalize_location(location) ==
  IF IsNone(location) THEN Raise("ValueError:location cannot be None", location, <<>>)
  ELSE Ok(Lower(Strip(location.v)))


(***************************************************************************)
(* cryptography.fernet.Fernet, as the manager uses it.  Encryption and the *)
(* HMAC are symbolic: a ciphertext names the key and IV it was made with   *)
(* and the plaintext, a MAC names its key and the fields it covers.  Bytes *)
(* are [kind |-> "bytes", val] or, for a Fernet token, [kind |-> "token"]. *)
(***************************************************************************)
Bytes(val) == [kind |-> "bytes", val |-> val]

\* Fernet(key): the signing half and the encryption half of the decoded key.
Fernet(key) ==
  LET decoded == urlsafe_b64decode(key) IN
  IF ~decoded.ok \/ Len(decoded.bytes) # FERNET_KEY_BYTES
  THEN Raise("ValueError:Fernet key must be 32 url-safe base64-encoded bytes",
             None, <<>>)
  ELSE Ok([signing_key    |-> SubSeq(decoded.bytes, 1, 16),
           encryption_key |-> SubSeq(decoded.bytes, 17, 32)])

TokenBody(version, ts, iv, ct) ==
  [version |-> version, ts |-> ts, iv |-> iv, ct |-> ct]

\* Fernet.encrypt(data) at time ts with the random IV iv:
\* 0x80 || timestamp || IV || AES-CBC(data) || HMAC of all that precedes.
FernetEncrypt(fernet, data, ts, iv) ==
  LET ct == [k |-> fernet.encryption_key, iv |-> iv, pt |-> data] IN
  [kind |-> "token", version |-> 128, ts |-> ts, iv |-> iv, ct |-> ct,
   mac |-> [k |-> fernet.signing_key, body |-> TokenBody(128, ts, iv, ct)]]

\* Fernet.decrypt(token) with no ttl, as the set of its possible outcomes:
\* InvalidToken unless the input is a token of version 0x80 whose HMAC
\* verifies under the signing key; then the ciphertext is decrypted, which
\* under another encryption key gives noise that either fails the padding
\* check or unpads to noise.
FernetDecrypt(fernet, data) ==
  IF data.kind # "token" THEN {Raise("InvalidToken", None, <<>>)}
  ELSE IF data.version # 128 THEN {Raise("InvalidToken", None, <<>>)}
  ELSE IF data.mac # [k |-> fernet.signing_key,
                      body |-> TokenBody(data.version, data.ts, data.iv, data.ct)]
  THEN {Raise("InvalidToken", None, <<>>)}
  ELSE IF data.ct.k = fernet.encryption_key
  THEN {Ok(data.ct.pt)}
  ELSE {Raise("InvalidToken", None, <<>>), Ok([kind |-> "noise"])}

(***************************************************************************)
(* _DEFAULT_POLICY_DEFINITIONS.  A dict is the list of its items in        *)
(* insertion order; a config holds None for a key it lacks.                *)
(***************************************************************************)
S3_DEFAULT_KEY ==
    <<"L", "4", "9", "j", "T", "E", "3", "m", "q", "X", "U", "g", "m", "w",
      "O", "v", "V", "2", "E", "a", "X", "i", "i", "Z", "k", "J", "t", "Q",
      "X", "o", "a", "K", "K", "K", "z", "l", "q", "x", "M", "F", "h", "k",
      "I", "=">>

AZURE_DEFAULT_KEY ==
    <<"0", "-", "B", "I", "K", "q", "i", "B", "t", "_", "_", "o", "U", "v",
      "Q", "x", "4", "1", "i", "C", "8", "9", "S", "d", "J", "p", "A", "i",
      "s", "6", "r", "u", "T", "5", "m", "H", "W", "Z", "n", "5", "d", "5",
      "0", "=">>

GCS_DEFAULT_KEY ==
    <<"F", "N", "L", "d", "l", "B", "u", "O", "K", "y", "2", "3", "f", "I",
      "z", "U", "T", "B", "S", "H", "X", "j", "h", "J", "s", "f", "I", "g",
      "S", "k", "i", "k", "U", "S", "U", "3", "m", "W", "k", "5", "0", "o",
      "o", "=">>

S3 == <<"s", "3">>

AZURE == <<"a", "z", "u", "r", "e">>

GCS == <<"g", "c", "s">>

ANALYTICS == <<"a", "n", "a", "l", "y", "t", "i", "c", "s">>

ENGINEERING == <<"e", "n", "g", "i", "n", "e", "e", "r", "i", "n", "g">>

OPERATIONS == <<"o", "p", "e", "r", "a", "t", "i", "o", "n", "s">>

COMPLIANCE == <<"c", "o", "m", "p", "l", "i", "a", "n", "c", "e">>

DEFAULT_SUFFIX == <<"-", "d", "e", "f", "a", "u", "l", "t">>

Config(env_key, env_roles, default_key, default_roles, key_id) ==
  [env_key |-> env_key, env_roles |-> env_roles, default_key |-> default_key,
   default_roles |-> default_roles, key_id |-> key_id]

Item(location, config) == [location |-> location, config |-> config]

_DEFAULT_POLICY_DEFINITIONS ==
  << Item(S3, Config(Some("S3_ENCRYPTION_KEY"), Some("S3_ALLOWED_ROLES"),
                     Some(S3_DEFAULT_KEY),
                     Some({ANALYTICS, ENGINEERING, SYSTEM}),
                     Some(S3 \o DEFAULT_SUFFIX))),
     Item(AZURE, Config(Some("AZURE_ENCRYPTION_KEY"), Some("AZURE_ALLOWED_ROLES"),
                        Some(AZURE_DEFAULT_KEY),
                        Some({OPERATIONS, ENGINEERING, SYSTEM}),
                        Some(AZURE \o DEFAULT_SUFFIX))),
     Item(GCS, Config(Some("GCS_ENCRYPTION_KEY"), Some("GCS_ALLOWED_ROLES"),
                      Some(GCS_DEFAULT_KEY),
                      Some({COMPLIANCE, ANALYTICS, SYSTEM}),
                      Some(GCS \o DEFAULT_SUFFIX))) >>


(***************************************************************************)
(* Inputs: the definitions argument of AdaptiveSecurityManager(), the      *)
(* process environment, and the arguments of the public API.               *)
(***************************************************************************)

\* Bounds of the model.
MaxPayloadLen == 1

NumIVs == 2

LOG == <<"l", "o", "g">>

OPS == <<"O", "p", "s">>

\* Two spellings of one location with different configs, the second read
\* last; no env_key, no key_id, a default role that is not lowercase.
CustomDefinitions ==
  << Item(<<" ", "L", "o", "g">>,
          Config(None, Some("S3_ALLOWED_ROLES"), Some(GCS_DEFAULT_KEY),
                 Some({COMPLIANCE}), None)),
     Item(LOG,
          Config(Some("LOG_KEY"), Some("S3_ALLOWED_ROLES"), Some(AZURE_DEFAULT_KEY),
                 Some({OPS}), None)) >>

\* A valid definition followed by one with no key at all.
BrokenDefinitions ==
  << Item(<<"S", "3">>,
          Config(Some("S3_ENCRYPTION_KEY"), None, Some(S3_DEFAULT_KEY),
                 Some({ENGINEERING}), Some(S3 \o DEFAULT_SUFFIX))),
     Item(<<"V", "a", "u", "l", "t">>,
          Config(Some("VAULT_KEY"), None, None, None, None)) >>

EmptyEnv == [v \in {} |-> <<>>]

\* S3_ALLOWED_ROLES=" Auditor,,ops "
RolesEnv ==
  "S3_ALLOWED_ROLES" :> <<" ", "A", "u", "d", "i", "t", "o", "r", ",", ",", "o", "p", "s", " ">>

\* AZURE_ENCRYPTION_KEY is the s3 default key inside blanks; S3_ENCRYPTION_KEY
\* is set but empty.
SameKeyEnv ==
  ("AZURE_ENCRYPTION_KEY" :> (<<" ">> \o S3_DEFAULT_KEY \o <<" ">>))
    @@ ("S3_ENCRYPTION_KEY" :> <<>>)

\* AZURE_ENCRYPTION_KEY decodes to the s3 key's first 31 bytes and another
\* last byte: the same signing half, another encryption half.
SameSigningEnv ==
  "AZURE_ENCRYPTION_KEY" :>
     (SubSeq(S3_DEFAULT_KEY, 1, 42) \o <<"A", "=">>)

\* GCS_ENCRYPTION_KEY="abc": not decodable (incorrect padding).
BadBase64Env == "GCS_ENCRYPTION_KEY" :> <<"a", "b", "c">>

\* AZURE_ENCRYPTION_KEY="abcd": decodes to 3 bytes.
ShortKeyEnv == "AZURE_ENCRYPTION_KEY" :> <<"a", "b", "c", "d">>

\* LOG_KEY=" ": set, not empty, blank.
BlankKeyEnv == "LOG_KEY" :> <<" ">>

BootInputs ==
  { [definitions |-> None, environ |-> EmptyEnv],
    [definitions |-> Some(<<>>), environ |-> RolesEnv],
    [definitions |-> None, environ |-> SameKeyEnv],
    [definitions |-> None, environ |-> SameSigningEnv],
    [definitions |-> None, environ |-> BadBase64Env],
    [definitions |-> None, environ |-> ShortKeyEnv],
    [definitions |-> Some(CustomDefinitions), environ |-> RolesEnv],
    [definitions |-> Some(CustomDefinitions), environ |-> BlankKeyEnv],
    [definitions |-> Some(BrokenDefinitions), environ |-> EmptyEnv] }

LocationArgs ==
  { None, Some(S3), Some(<<" ", "S", "3", " ">>), Some(<<"A", "z", "u", "r", "e">>),
    Some(<<"L", "O", "G", " ">>), Some(<<"t", "a", "p", "e">>) }

RoleArgs ==
  { None,
    Some(<<>>),
    Some(<<None, Some(<<" ", " ">>)>>),
    Some(<<Some(<<" ">> \o <<"E">> \o Tail(ENGINEERING) \o <<" ">>)>>),
    Some(<<Some(<<"a", "u", "d", "i", "t", "o", "r">>)>>),
    Some(<<Some(OPERATIONS), Some(<<>>)>>),
    Some(<<Some(OPS), Some(COMPLIANCE)>>) }

PayloadBytes == {104}

RECURSIVE SeqsUpTo(_, _)
SeqsUpTo(S, n) ==
  IF n = 0 THEN {<<>>}
  ELSE LET shorter == SeqsUpTo(S, n - 1)
       IN  shorter \cup {Append(q, x) : q \in shorter, x \in S}

Payloads == {Some(Bytes(p)) : p \in SeqsUpTo(PayloadBytes, MaxPayloadLen)}

Timestamps == {0}

IVs == 1..NumIVs


(***************************************************************************)
(* State.                                                                  *)
(***************************************************************************)
VARIABLES
  definitions,       \* the argument of AdaptiveSecurityManager(definitions)
  environ,           \* os.environ
  pc,                \* "start", "loading", "failed" or "ready"
  self_definitions,  \* self._definitions
  idx,               \* the item _load_policies is at
  policies,          \* self._policies: normalized location -> _LocationPolicy
  boot_error,        \* the exception __init__ raised, if any
  security_manager,  \* the manager callers hold: None until __init__ returned
  last,              \* the last public API call: arguments, result, steps taken
  buckets,           \* the storage backends: location -> object key -> bytes
  move               \* the last move_object call and what it found and left

vars == <<definitions, environ, pc, self_definitions, idx, policies, boot_error,
          security_manager, last, buckets, move>>

boot_vars == <<definitions, environ, pc, self_definitions, idx, policies,
               boot_error, security_manager>>

EmptyDict == [k \in {} |-> None]

(***************************************************************************)
(* AdaptiveSecurityManager.__init__ and _load_policies.                    *)
(***************************************************************************)

\* os.getenv(name)
Getenv(name) == IF name \in DOMAIN environ THEN Some(environ[name]) ELSE None

\* x or default, for an Optional x whose empty value is `empty`.
OrElse(x, empty, default) == IF x.some /\ x.v # empty THEN x.v ELSE default

\* Mutant of AllowedRoles: the roles of the override variable are left out.
AllowedRoles_without_env(base_roles, env_roles) == base_roles \cup {SYSTEM}

\* allowed_roles = base_roles | env_roles | {"system"}
AllowedRoles(base_roles, env_roles) == base_roles \cup env_roles \cup {SYSTEM}

\* The body of the loop of _load_policies for one item of the definitions:
\* the policy built, or the exception raised.
LoadPolicy(location, config) ==
  LET key == _normalize_location(Some(location)).value
      env_var == OrElse(config.env_key, "", "")
      default_key == OrElse(config.default_key, <<>>, <<>>)
      raw_key == OrElse(Getenv(env_var), <<>>, default_key)
      key_source == IF OrElse(Getenv(env_var), <<>>, <<>>) # <<>>
                    THEN <<"env", env_var>> ELSE <<"default">>
      fernet_key == _coerce_fernet_key(raw_key, location)
      base_roles == OrElse(config.default_roles, {}, {})
      roles_env_var == OrElse(config.env_roles, "", "")
      fields == Split(OrElse(Getenv(roles_env_var), <<>>, <<>>), ",")
      env_roles == _normalize_roles(
                     IF roles_env_var # ""
                     THEN Some([i \in 1..Len(fields) |-> Some(fields[i])])
                     ELSE None)
      key_id == OrElse(config.key_id, <<>>, key \o DEFAULT_SUFFIX)
  IN  IF ~fernet_key.ok THEN fernet_key
      ELSE LET fernet == Fernet(fernet_key.value) IN
           IF ~fernet.ok THEN fernet
           ELSE Ok([name |-> key, key_id |-> key_id, fernet |-> fernet.value,
                    allowed_roles |-> AllowedRoles(base_roles, env_roles),
                    key_source |-> key_source])

\* __init__ up to the call of _load_policies.
Construct ==
  /\ pc = "start"
  /\ self_definitions' = OrElse(definitions, <<>>, _DEFAULT_POLICY_DEFINITIONS)
  /\ policies' = EmptyDict
  /\ idx' = 1
  /\ pc' = "loading"
  /\ UNCHANGED <<definitions, environ, boot_error, security_manager, last,
                 buckets, move>>

\* One iteration of _load_policies; an exception leaves __init__, and the
\* module-level assignment of security_manager never happens.
_load_policies ==
  /\ pc = "loading"
  /\ idx <= Len(self_definitions)
  /\ LET item == self_definitions[idx]
         loaded == LoadPolicy(item.location, item.config)
     IN  IF loaded.ok
         THEN /\ policies' = (loaded.value.name :> loaded.value) @@ policies
              /\ idx' = idx + 1
              /\ UNCHANGED <<pc, boot_error>>
         ELSE /\ pc' = "failed"
              /\ boot_error' = Some(loaded)
              /\ UNCHANGED <<policies, idx>>
  /\ UNCHANGED <<definitions, environ, self_definitions, security_manager, last, buckets, move>>

\* _load_policies and __init__ return: security_manager = AdaptiveSecurityManager()
InitReturns ==
  /\ pc = "loading"
  /\ idx > Len(self_definitions)
  /\ pc' = "ready"
  /\ security_manager' = Some("AdaptiveSecurityManager")
  /\ UNCHANGED <<definitions, environ, self_definitions, idx, policies,
                 boot_error, last, buckets, move>>


(***************************************************************************)
(* _LocationPolicy and the public API of AdaptiveSecurityManager.  Each    *)
(* call gives its result and the steps it took, in order: "lookup"         *)
(* (_policy_for), "authorize", "fernet".                                   *)
(***************************************************************************)
POLICY_VERSION == <<"2", "0", "2", "4", ".", "1">>

\* Mutant of authorize: every principal role must be allowed ("<=" for "&").
authorize_all_roles(policy, principal_roles) ==
  LET roles == _normalize_roles(principal_roles) IN
  IF ~(roles \subseteq policy.allowed_roles)
  THEN Raise("AuthorizationError", Some(policy.name), Sorted(policy.allowed_roles))
  ELSE Ok(None)

\* _LocationPolicy.authorize
authorize(policy, principal_roles) ==
  LET roles == _normalize_roles(principal_roles) IN
  IF roles \cap policy.allowed_roles = {}
  THEN Raise("AuthorizationError", Some(policy.name), Sorted(policy.allowed_roles))
  ELSE Ok(None)

\* Mutant of SortedRoles: the list handed out is the policy's own collection.
SortedRoles_aliasing(policy) ==
  [alias_of |-> Some(policy.name), items |-> Sorted(policy.allowed_roles)]

\* sorted(policy.allowed_roles): a new list object, which aliases nothing.
SortedRoles(policy) ==
  [alias_of |-> None, items |-> Sorted(policy.allowed_roles)]

\* _LocationPolicy.snapshot
snapshot(policy) ==
  [location |-> policy.name,
   policy_version |-> POLICY_VERSION,
   encryption |-> [algorithm |-> "fernet", key_id |-> policy.key_id,
                   key_source |-> policy.key_source],
   access_control |-> [allowed_roles |-> SortedRoles(policy)]]

\* _policy_for: the error names the location as the caller spelled it.
_policy_for(location) ==
  LET key == _normalize_location(location) IN
  IF ~key.ok THEN key
  ELSE IF key.value \notin DOMAIN policies
  THEN Raise("ValueError:no security policy configured for location",
             location, <<>>)
  ELSE Ok(policies[key.value])

Returned(result, steps) == [result |-> result, steps |-> steps]

\* Mutant of encrypt: the policy is looked up before data is tested for None.
encrypt_lookup_first(location, data, principal_roles, ts, iv) ==
  LET policy == _policy_for(location) IN
  IF ~policy.ok THEN Returned(policy, <<"lookup">>)
  ELSE IF IsNone(data) THEN Returned(Ok(None), <<"lookup">>)
  ELSE LET auth == authorize(policy.value, principal_roles) IN
       IF ~auth.ok THEN Returned(auth, <<"lookup", "authorize">>)
       ELSE Returned(Ok(Some(FernetEncrypt(policy.value.fernet, data.v, ts, iv))),
                     <<"lookup", "authorize", "fernet">>)

encrypt(location, data, principal_roles, ts, iv) ==
  IF IsNone(data) THEN Returned(Ok(None), <<>>)
  ELSE LET policy == _policy_for(location) IN
       IF ~policy.ok THEN Returned(policy, <<"lookup">>)
       ELSE LET auth == authorize(policy.value, principal_roles) IN
            IF ~auth.ok THEN Returned(auth, <<"lookup", "authorize">>)
            ELSE Returned(Ok(Some(FernetEncrypt(policy.value.fernet, data.v, ts, iv))),
                          <<"lookup", "authorize", "fernet">>)

\* Mutant of decrypt: InvalidToken is swallowed and None returned.
decrypt_swallows_invalid_token(location, data, principal_roles) ==
  IF IsNone(data) THEN {Returned(Ok(None), <<>>)}
  ELSE LET policy == _policy_for(location) IN
       IF ~policy.ok THEN {Returned(policy, <<"lookup">>)}
       ELSE LET auth == authorize(policy.value, principal_roles) IN
            IF ~auth.ok THEN {Returned(auth, <<"lookup", "authorize">>)}
            ELSE { Returned(IF plain.ok THEN Ok(Some(plain.value)) ELSE Ok(None),
                            <<"lookup", "authorize", "fernet">>) :
                   plain \in FernetDecrypt(policy.value.fernet, data.v) }

\* Mutant of decrypt: fernet.encrypt is called where fernet.decrypt belongs.
decrypt_encrypts(location, data, principal_roles) ==
  IF IsNone(data) THEN {Returned(Ok(None), <<>>)}
  ELSE LET policy == _policy_for(location) IN
       IF ~policy.ok THEN {Returned(policy, <<"lookup">>)}
       ELSE LET auth == authorize(policy.value, principal_roles) IN
            IF ~auth.ok THEN {Returned(auth, <<"lookup", "authorize">>)}
            ELSE { Returned(Ok(Some(FernetEncrypt(policy.value.fernet, data.v, ts, iv))),
                            <<"lookup", "authorize", "fernet">>) :
                   ts \in Timestamps, iv \in IVs }

\* decrypt, as the set of its possible outcomes.
decrypt(location, data, principal_roles) ==
  IF IsNone(data) THEN {Returned(Ok(None), <<>>)}
  ELSE LET policy == _policy_for(location) IN
       IF ~policy.ok THEN {Returned(policy, <<"lookup">>)}
       ELSE LET auth == authorize(policy.value, principal_roles) IN
            IF ~auth.ok THEN {Returned(auth, <<"lookup", "authorize">>)}
            ELSE { Returned(IF plain.ok THEN Ok(Some(plain.value))
                            ELSE Raise("EncryptionError", Some(policy.value.name), <<>>),
                            <<"lookup", "authorize", "fernet">>) :
                   plain \in FernetDecrypt(policy.value.fernet, data.v) }

describe_policy(location) ==
  LET policy == _policy_for(location) IN
  IF ~policy.ok THEN Returned(policy, <<"lookup">>)
  ELSE Returned(Ok(snapshot(policy.value)), <<"lookup">>)

allowed_roles(location) ==
  LET policy == _policy_for(location) IN
  IF ~policy.ok THEN Returned(policy, <<"lookup">>)
  ELSE Returned(Ok(SortedRoles(policy.value)), <<"lookup">>)

\* Where the data passed to decrypt came from: the encrypt call that
\* returned it, and whether it is that token as returned (intact).
Source(location, data, principal_roles, intact) ==
  [location |-> location, data |-> data, principal_roles |-> principal_roles,
   intact |-> intact]

NoSource == Source(None, None, None, FALSE)

Call(op, location, data, principal_roles, source, returned) ==
  [op |-> op, location |-> location, data |-> data,
   principal_roles |-> principal_roles, source |-> source,
   result |-> returned.result, steps |-> returned.steps, touched |-> FALSE]

NoCall == Call("none", None, None, None, NoSource, Returned(Ok(None), <<>>))

\* A caller that holds no result calls security_manager.encrypt.
Encrypt ==
  /\ security_manager.some
  /\ last = NoCall
  /\ \E location \in LocationArgs, data \in Payloads \cup {None},
        principal_roles \in RoleArgs, ts \in Timestamps, iv \in IVs :
       last' = Call("encrypt", location, data, principal_roles, NoSource,
                    encrypt(location, data, principal_roles, ts, iv))
  /\ UNCHANGED <<boot_vars, buckets, move>>

\* The token with its timestamp field changed in transit.
Tampered(token) == [token EXCEPT !.ts = @ + 1]

\* Whether the last call was an encrypt that returned a token.
TokenReturned ==
  last.op = "encrypt" /\ last.result.ok /\ last.result.value.some

\* A caller calls security_manager.decrypt on nothing or on bytes that are
\* no token.
Decrypt ==
  /\ security_manager.some
  /\ last = NoCall
  /\ \E location \in LocationArgs, data \in {None, Some(Bytes(<<>>))},
        principal_roles \in RoleArgs :
       \E returned \in decrypt(location, data, principal_roles) :
         last' = Call("decrypt", location, data, principal_roles, NoSource,
                      returned)
  /\ UNCHANGED <<boot_vars, buckets, move>>

\* A caller calls security_manager.decrypt on the token encrypt just
\* returned, or on that token tampered with.
DecryptToken ==
  /\ security_manager.some
  /\ TokenReturned
  /\ \E location \in LocationArgs, principal_roles \in RoleArgs,
        intact \in BOOLEAN :
       LET token == last.result.value.v
           data == Some(IF intact THEN token ELSE Tampered(token))
       IN  \E returned \in decrypt(location, data, principal_roles) :
             last' = Call("decrypt", location, data, principal_roles,
                          Source(last.location, last.data, last.principal_roles,
                                 intact),
                          returned)
  /\ UNCHANGED <<boot_vars, buckets, move>>

DescribePolicy ==
  /\ security_manager.some
  /\ last = NoCall
  /\ \E location \in LocationArgs :
       last' = Call("describe_policy", location, None, None, NoSource,
                    describe_policy(location))
  /\ UNCHANGED <<boot_vars, buckets, move>>

AllowedRolesCall ==
  /\ security_manager.some
  /\ last = NoCall
  /\ \E location \in LocationArgs :
       last' = Call("allowed_roles", location, None, None, NoSource,
                    allowed_roles(location))
  /\ UNCHANGED <<boot_vars, buckets, move>>

\* The caller drops the result it holds.
Forget ==
  /\ security_manager.some
  /\ last # NoCall
  /\ last' = NoCall
  /\ UNCHANGED <<boot_vars, buckets, move>>

ROOT == <<"r", "o", "o", "t">>

\* The role list a call returned, if it returned one; touched records that
\* the caller changed it since.
ReturnedList ==
  IF ~last.result.ok THEN None
  ELSE IF last.op = "allowed_roles" THEN Some(last.result.value)
  ELSE IF last.op = "describe_policy"
  THEN Some(last.result.value.access_control.allowed_roles)
  ELSE None

WithReturnedList(list) ==
  IF last.op = "allowed_roles"
  THEN [last EXCEPT !.result.value = list, !.touched = TRUE]
  ELSE [last EXCEPT !.result.value.access_control.allowed_roles = list,
                    !.touched = TRUE]

\* The caller appends a role to the list it was given.  A list is an object:
\* whatever else the same object is changes with it.
CallerAppends ==
  /\ security_manager.some
  /\ ReturnedList.some
  /\ ROOT \notin Range(ReturnedList.v.items)
  /\ last' = WithReturnedList([ReturnedList.v EXCEPT !.items = Append(@, ROOT)])
  /\ policies' = IF ReturnedList.v.alias_of.some
                 THEN [policies EXCEPT ![ReturnedList.v.alias_of.v].allowed_roles
                                          = @ \cup {ROOT}]
                 ELSE policies
  /\ UNCHANGED <<definitions, environ, pc, self_definitions, idx, boot_error,
                 security_manager, buckets, move>>


(***************************************************************************)
(* mover.py.  The storage clients are external: a bucket maps an object    *)
(* key to the bytes stored under it, None when there is no such object.    *)
(* The mover uses the module-level security_manager, which is built from   *)
(* the default definitions.                                                *)
(***************************************************************************)
ObjKeys == {"a.txt"}

Backends == {S3, AZURE, GCS}

\* s3.get_object / az.get_blob / gcs.get_object
GetObject(store, location, obj_key) == store[location][obj_key]

\* s3.put_object / az.put_blob / gcs.put_object
PutObject(store, location, obj_key, body) ==
  [store EXCEPT ![location][obj_key] = body]

\* s3.delete_object / az.delete_blob / gcs.delete_object
DeleteObject(store, location, obj_key) ==
  [store EXCEPT ![location][obj_key] = None]

Moved(result, found, store) == [result |-> result, found |-> found, store |-> store]

\* move_object from the call of security_manager.encrypt on: plaintext is
\* what decrypt gave for the object data found at src.
MoveDecrypted(obj_key, src, dst, roles, put_ok, ts, iv, data, plaintext) ==
  IF ~plaintext.ok THEN Moved(plaintext, data, buckets)
  ELSE
  LET encrypted == encrypt(Some(dst), plaintext.value, roles, ts, iv).result IN
  IF ~encrypted.ok THEN Moved(encrypted, data, buckets)
  ELSE IF dst \notin Backends
  THEN Moved(Raise("ValueError:unknown dst", None, <<>>), data, buckets)
  ELSE IF ~put_ok
  THEN Moved(Raise("PutFailed", Some(dst), <<>>), data, buckets)
  ELSE Moved(Ok(None), data,
             DeleteObject(PutObject(buckets, dst, obj_key, encrypted.value),
                          src, obj_key))

\* move_object, as the set of its possible outcomes: the result, the object
\* found at src, and the buckets it leaves.  put_ok is whether the backend
\* accepts the put.
move_object(obj_key, src, dst, principal_roles, put_ok, ts, iv) ==
  IF src \notin Backends
  THEN {Moved(Raise("ValueError:unknown src", None, <<>>), None, buckets)}
  ELSE
  LET data == GetObject(buckets, src, obj_key) IN
  IF IsNone(data)
  THEN {Moved(Raise("FileNotFoundError", Some(src), <<>>), data, buckets)}
  ELSE
  LET roles == IF principal_roles.some THEN principal_roles
               ELSE Some(<<Some(SYSTEM)>>)
  IN  { MoveDecrypted(obj_key, src, dst, roles, put_ok, ts, iv, data,
                      plaintext.result) :
        plaintext \in decrypt(Some(src), data, roles) }

MoveLocationArgs == Backends \cup {<<"S", "3">>}

MoveRoleArgs ==
  { None, Some(<<Some(ENGINEERING)>>), Some(<<Some(OPERATIONS)>>) }

NoMove ==
  [obj_key |-> "", src |-> <<>>, dst |-> <<>>, principal_roles |-> None,
   found |-> None, result |-> Ok(None)]

MoverImported == security_manager.some /\ IsNone(definitions)

\* One file of put_seed_objects: encrypt for "s3" as {"system"}, then put.
PutSeedObject ==
  /\ MoverImported
  /\ move = NoMove
  /\ \E key \in ObjKeys, body \in Payloads, ts \in Timestamps, iv \in IVs :
       LET encrypted == encrypt(Some(S3), body, Some(<<Some(SYSTEM)>>), ts, iv).result
       IN  /\ encrypted.ok
           /\ buckets' = PutObject(buckets, S3, key, encrypted.value)
  /\ UNCHANGED <<boot_vars, last, move>>

\* Another writer of a backend stores bytes the manager never encrypted.
ForeignPut ==
  /\ MoverImported
  /\ move = NoMove
  /\ \E location \in Backends, key \in ObjKeys :
       buckets' = PutObject(buckets, location, key, Some(Bytes(<<>>)))
  /\ UNCHANGED <<boot_vars, last, move>>

\* A caller that holds no result calls move_object.
MoveObject ==
  /\ MoverImported
  /\ move = NoMove
  /\ \E obj_key \in ObjKeys, src \in MoveLocationArgs, dst \in MoveLocationArgs,
        principal_roles \in MoveRoleArgs, put_ok \in BOOLEAN,
        ts \in Timestamps, iv \in IVs :
       \E moved \in move_object(obj_key, src, dst, principal_roles, put_ok,
                                ts, iv) :
           /\ buckets' = moved.store
           /\ move' = [obj_key |-> obj_key, src |-> src, dst |-> dst,
                       principal_roles |-> principal_roles,
                       found |-> moved.found, result |-> moved.result]
  /\ UNCHANGED <<boot_vars, last>>

\* The caller of move_object drops the result it holds.
MoveReturns ==
  /\ MoverImported
  /\ move # NoMove
  /\ move' = NoMove
  /\ UNCHANGED <<boot_vars, last, buckets>>

(***************************************************************************)
(* Specifications.                                                         *)
(***************************************************************************)
Init ==
  /\ \E input \in BootInputs :
       /\ definitions = input.definitions
       /\ environ = input.environ
  /\ pc = "start"
  /\ self_definitions = <<>>
  /\ idx = 1
  /\ policies = EmptyDict
  /\ boot_error = None
  /\ security_manager = None
  /\ last = NoCall
  /\ buckets = [location \in Backends |-> [key \in ObjKeys |-> None]]
  /\ move = NoMove

\* The manager and its callers.
Next ==
  \/ Construct
  \/ _load_policies
  \/ InitReturns
  \/ Encrypt
  \/ Decrypt
  \/ DecryptToken
  \/ DescribePolicy
  \/ AllowedRolesCall
  \/ CallerAppends
  \/ Forget

Spec == Init /\ [][Next]_vars

\* The manager and the mover.
MoveNext ==
  \/ Construct
  \/ _load_policies
  \/ InitReturns
  \/ PutSeedObject
  \/ ForeignPut
  \/ MoveObject
  \/ MoveReturns

MoveSpec == Init /\ [][MoveNext]_vars


(***************************************************************************)
(* The vocabulary of the properties.                                       *)
(***************************************************************************)
TAPE == <<"t", "a", "p", "e">>

VAULT == <<"v", "a", "u", "l", "t">>

\* The store key each location name used here stands for: the name without
\* surrounding blanks, in lower case.
NormalizedName(name) ==
  CASE name \in {S3, <<"S", "3">>, <<" ", "S", "3", " ">>} -> S3
    [] name \in {AZURE, <<"A", "z", "u", "r", "e">>} -> AZURE
    [] name = GCS -> GCS
    [] name \in {LOG, <<" ", "L", "o", "g">>, <<"L", "O", "G", " ">>} -> LOG
    [] name = <<"V", "a", "u", "l", "t">> -> VAULT
    [] name = TAPE -> TAPE

Configured(location) ==
  location.some /\ NormalizedName(location.v) \in DOMAIN policies

PolicyOf(location) == policies[NormalizedName(location.v)]

IsEncryptOrDecrypt == last.op \in {"encrypt", "decrypt"}

IsIntrospection == last.op \in {"describe_policy", "allowed_roles"}

\* The normalized principal role set: every given role trimmed and in lower
\* case, the empty ones discarded, {"system"} when nothing is left.
PrincipalRoleSet(principal_roles) ==
  LET given == IF principal_roles.some
               THEN {x \in Range(principal_roles.v) : x.some} ELSE {}
      texts == {Lower(Strip(x.v)) : x \in given} \ {<<>>}
  IN  IF texts = {} THEN {SYSTEM} ELSE texts

\* list holds exactly the members of S, in strictly ascending order.
IsSortedListOf(list, S) ==
  /\ Range(list) = S
  /\ \A i \in 1..(Len(list) - 1) : StrLess(list[i], list[i + 1])

AuthorizationDenied ==
  ~last.result.ok /\ last.result.kind = "AuthorizationError"

\* ---------------------------------------------------------------------------
\* C1.  Authorization gate: a call of encrypt or decrypt with data, at a
\* configured location, passes authorization if and only if the normalized
\* principal role set and the policy's allowed role set have a role in
\* common; otherwise it fails with AuthorizationError naming the location and
\* the allowed roles as a sorted list.  A result is returned only when they
\* have a role in common.
C1_AuthorizationGate ==
  (IsEncryptOrDecrypt /\ last.data.some /\ Configured(last.location)) =>
    LET policy == PolicyOf(last.location)
        common == PrincipalRoleSet(last.principal_roles) \cap policy.allowed_roles
    IN  /\ common # {} => /\ last.steps = <<"lookup", "authorize", "fernet">>
                          /\ ~AuthorizationDenied
        /\ common = {} => /\ AuthorizationDenied
                          /\ last.result.location = Some(policy.name)
                          /\ IsSortedListOf(last.result.roles, policy.allowed_roles)
                          /\ last.steps = <<"lookup", "authorize">>
        /\ last.result.ok => common # {}

\* A decrypt with data at a configured location was denied.
C1_Witness ==
  /\ last.op = "decrypt" /\ last.data.some /\ Configured(last.location)
  /\ AuthorizationDenied

\* ---------------------------------------------------------------------------
\* C2.  Round trip: decrypt at the location, and with the roles, of the
\* encrypt call that returned the token gives back exactly the data that was
\* encrypted, the empty payload included, and raises nothing.
SameLocationAndRoles ==
  /\ last.op = "decrypt" /\ last.source.intact
  /\ last.location.some /\ last.source.location.some
  /\ NormalizedName(last.location.v) = NormalizedName(last.source.location.v)
  /\ last.principal_roles = last.source.principal_roles

C2_RoundTrip == SameLocationAndRoles => last.result = Ok(last.source.data)

\* The empty payload made the round trip under another spelling of the
\* location.
C2_Witness ==
  /\ SameLocationAndRoles
  /\ last.source.data = Some(Bytes(<<>>))
  /\ last.location # last.source.location
  /\ last.result.ok

\* ---------------------------------------------------------------------------
\* C3 as stated.  Cross-location rejection: a token encrypt returned for one
\* configured location fails decrypt at any other configured location, with
\* the same roles, with EncryptionError.
CrossLocation ==
  /\ last.op = "decrypt" /\ last.source.intact
  /\ last.location.some /\ last.source.location.some
  /\ Configured(last.location)
  /\ NormalizedName(last.location.v) # NormalizedName(last.source.location.v)
  /\ last.principal_roles = last.source.principal_roles

C3_CrossLocationRejection ==
  CrossLocation => (~last.result.ok /\ last.result.kind = "EncryptionError")

\* C3 as amended.  When the keys of the two locations differ in their signing
\* half, decrypt at the other location never returns: it fails with
\* EncryptionError naming that location when the roles are allowed there,
\* and with AuthorizationError when they are not.
SigningKeysDiffer ==
  PolicyOf(last.location).fernet.signing_key
    # PolicyOf(last.source.location).fernet.signing_key

C3_CrossLocationAmended ==
  (CrossLocation /\ SigningKeysDiffer) =>
    /\ ~last.result.ok
    /\ IF PrincipalRoleSet(last.principal_roles)
            \cap PolicyOf(last.location).allowed_roles # {}
       THEN /\ last.result.kind = "EncryptionError"
            /\ last.result.location = Some(NormalizedName(last.location.v))
       ELSE last.result.kind = "AuthorizationError"

\* A token of one location was rejected by the key of another.
C3_Witness ==
  /\ CrossLocation /\ SigningKeysDiffer
  /\ ~last.result.ok /\ last.result.kind = "EncryptionError"

\* ---------------------------------------------------------------------------
\* C4.  Absent data passes through: encrypt and decrypt of None return None
\* for every location and every roles, without a policy lookup, an
\* authorization or a cryptographic step, so without any error.
C4_AbsentPassThrough ==
  (IsEncryptOrDecrypt /\ IsNone(last.data)) =>
    (last.result = Ok(None) /\ last.steps = <<>>)

\* None went through decrypt at a location that is not configured.
C4_Witness ==
  /\ last.op = "decrypt" /\ IsNone(last.data)
  /\ last.location = Some(TAPE)
  /\ last.principal_roles # None

\* ---------------------------------------------------------------------------
\* C5.  Every policy of a constructed manager allows "system", the default
\* roles of its definition and the normalized roles of the role-override
\* variable; describe_policy and allowed_roles return exactly the allowed
\* roles, in sorted order.
DefinitionOf(key) ==
  LET at == {i \in 1..Len(self_definitions) :
               NormalizedName(self_definitions[i].location) = key}
  IN  self_definitions[CHOOSE i \in at : \A j \in at : j <= i]

DefaultRolesOf(item) ==
  IF item.config.default_roles.some THEN item.config.default_roles.v ELSE {}

OverrideRolesOf(item) ==
  IF item.config.env_roles.some /\ item.config.env_roles.v \in DOMAIN environ
  THEN {Lower(Strip(f)) :
          f \in Range(Split(environ[item.config.env_roles.v], ","))} \ {<<>>}
  ELSE {}

C5_AllowedRoles ==
  security_manager.some =>
    /\ \A key \in DOMAIN policies :
         /\ SYSTEM \in policies[key].allowed_roles
         /\ DefaultRolesOf(DefinitionOf(key)) \subseteq policies[key].allowed_roles
         /\ OverrideRolesOf(DefinitionOf(key)) \subseteq policies[key].allowed_roles
    /\ (IsIntrospection /\ last.result.ok /\ ~last.touched) =>
         IsSortedListOf(ReturnedList.v.items, PolicyOf(last.location).allowed_roles)

\* describe_policy returned the roles of a policy that the override variable
\* added "auditor" to.
C5_Witness ==
  /\ security_manager.some
  /\ last.op = "describe_policy" /\ last.result.ok /\ ~last.touched
  /\ <<"a", "u", "d", "i", "t", "o", "r">> \in Range(ReturnedList.v.items)

\* ---------------------------------------------------------------------------
\* C6.  Boot is all or nothing: when the resolved key of a definition is
\* missing, not base64 or not 32 bytes long, construction fails with an error
\* naming that location and no manager is available, whatever policies were
\* built before; when every key is valid, construction does not fail and the
\* manager holds one policy for each normalized location name.
EffectiveDefinitions ==
  IF definitions.some /\ definitions.v # <<>> THEN definitions.v
  ELSE _DEFAULT_POLICY_DEFINITIONS

ResolvedKey(item) ==
  LET override == IF item.config.env_key.some
                     /\ item.config.env_key.v \in DOMAIN environ
                  THEN environ[item.config.env_key.v] ELSE <<>>
  IN  IF override # <<>> THEN override
      ELSE IF item.config.default_key.some THEN item.config.default_key.v
      ELSE <<>>

KeyValid(item) ==
  LET decoded == urlsafe_b64decode(Strip(ResolvedKey(item))) IN
  ResolvedKey(item) # <<>> /\ decoded.ok /\ Len(decoded.bytes) = 32

InvalidKeys ==
  {i \in 1..Len(EffectiveDefinitions) : ~KeyValid(EffectiveDefinitions[i])}

C6_BootAllOrNothing ==
  /\ InvalidKeys # {} => (IsNone(security_manager) /\ pc # "ready")
  /\ InvalidKeys = {} => pc # "failed"
  /\ pc = "failed" =>
       /\ IsNone(security_manager)
       /\ boot_error.some
       /\ \E i \in InvalidKeys :
            /\ \A j \in InvalidKeys : i <= j
            /\ boot_error.v.location = Some(EffectiveDefinitions[i].location)
  /\ security_manager.some <=> pc = "ready"
  /\ pc = "ready" =>
       DOMAIN policies =
         {NormalizedName(EffectiveDefinitions[i].location) :
            i \in 1..Len(EffectiveDefinitions)}

\* Construction failed after a policy had been built, and no manager exists.
C6_Witness ==
  /\ pc = "failed"
  /\ DOMAIN policies # {}
  /\ IsNone(security_manager)

\* ---------------------------------------------------------------------------
\* C7.  Lookup is case-insensitive and total: every spelling of a configured
\* name, whatever its letter case and surrounding blanks, resolves the one
\* policy stored under the normalized name; a name whose normalized form is
\* not in the store fails with "no security policy configured for location",
\* naming the location as spelled, before any authorization or cryptographic
\* step.
LooksUp ==
  /\ last.op # "none" /\ last.location.some
  /\ IsIntrospection \/ last.data.some

\* The result of the last call shows that it worked on the policy `key`.
Resolved(key) ==
  /\ last.steps # <<>> /\ last.steps[1] = "lookup"
  /\ CASE last.op = "describe_policy" ->
            last.result.ok /\ last.result.value.location = key
       [] last.op = "allowed_roles" ->
            /\ last.result.ok
            /\ last.touched
                 \/ Range(last.result.value.items) = policies[key].allowed_roles
       [] last.op = "encrypt" ->
            IF last.result.ok
            THEN last.result.value.v.mac.k = policies[key].fernet.signing_key
            ELSE AuthorizationDenied /\ last.result.location = Some(key)
       [] last.op = "decrypt" ->
            \/ last.result.ok
            \/ /\ last.result.kind \in {"AuthorizationError", "EncryptionError"}
               /\ last.result.location = Some(key)

C7_LocationLookup ==
  LooksUp =>
    IF NormalizedName(last.location.v) \in DOMAIN policies
    THEN Resolved(NormalizedName(last.location.v))
    ELSE /\ last.result =
              Raise("ValueError:no security policy configured for location",
                    last.location, <<>>)
         /\ last.steps = <<"lookup">>

\* describe_policy resolved the s3 policy from the spelling " S3 ".
C7_Witness ==
  /\ last.op = "describe_policy"
  /\ last.location = Some(<<" ", "S", "3", " ">>)
  /\ last.result.ok /\ last.result.value.location = S3

\* ---------------------------------------------------------------------------
\* C8.  The store is read-only after construction: no call of the public
\* API, whether it succeeds or fails, and nothing a caller does to a result
\* it was given, changes the configured locations or any policy.
C8_StoreReadOnly ==
  [][security_manager.some =>
       /\ policies' = policies
       /\ security_manager' = security_manager
       /\ self_definitions' = self_definitions]_vars

\* A caller changed the role list that allowed_roles gave it.
C8_Witness ==
  /\ last.op = "allowed_roles" /\ last.touched
  /\ ROOT \in Range(last.result.value.items)
  /\ ROOT \notin PolicyOf(last.location).allowed_roles

\* ---------------------------------------------------------------------------
\* C9.  Absent or empty principals are trusted: roles that are None, an
\* empty collection or a collection of only None and blank entries count as
\* {"system"}, so encrypt and decrypt with data at a configured location are
\* never denied with AuthorizationError for them.
DefaultTrusted ==
  { None, Some(<<>>), Some(<<None, Some(<<" ", " ">>)>>) }

C9_DefaultTrust ==
  (IsEncryptOrDecrypt /\ last.data.some /\ Configured(last.location)
     /\ last.principal_roles \in DefaultTrusted) =>
    (~AuthorizationDenied /\ last.steps = <<"lookup", "authorize", "fernet">>)

\* encrypt succeeded for a collection of only None and a blank entry.
C9_Witness ==
  /\ last.op = "encrypt" /\ last.data.some
  /\ last.principal_roles = Some(<<None, Some(<<" ", " ">>)>>)
  /\ last.result.ok

\* ---------------------------------------------------------------------------
\* C10.  Move preserves the object: when move_object returns, the object is
\* at dst under the same key, encrypted under dst's key, and decrypts to the
\* plaintext it had at src, for every src and dst among s3, azure and gcs,
\* src = dst included; when move_object fails, the object at src is as it
\* was found.
StoredUnder(location, obj_key, plaintext) ==
  LET stored == buckets[location][obj_key] IN
  /\ stored.some
  /\ stored.v.kind = "token"
  /\ Ok(plaintext) \in FernetDecrypt(policies[location].fernet, stored.v)

C10_MovePreservesObject ==
  move # NoMove =>
    IF move.result.ok
    THEN StoredUnder(move.dst, move.obj_key, move.found.v.ct.pt)
    ELSE move.src \in Backends => buckets[move.src][move.obj_key] = move.found

\* The same, for src # dst only.
C10_MoveBetweenLocations ==
  (move # NoMove /\ move.src # move.dst) => C10_MovePreservesObject

\* An object was moved from one backend to another.
C10_Moved == move # NoMove /\ move.result.ok /\ move.src # move.dst

=============================================================================
